---- MODULE Spec2Model ----
(***************************************************************************)
(* Model of the option-chain signal engine of option_signals.py            *)
(* (class AdvancedOptionSignalGenerator): analyze_atm_strikes,             *)
(* calculate_pcr, select_optimal_strike, get_selection_reason,             *)
(* generate_advanced_signal and the body of run_complete_analysis' loop,   *)
(* and of the web backend of backend/app.py: the refresh job               *)
(* fetch_and_process_data and the handler get_symbol_data.                 *)
(*                                                                         *)
(* Conventions.                                                            *)
(*  - A Python dict is a TLA+ record/function; `k in d` is k \in DOMAIN d, *)
(*    d.get(k, v) is Get(d, k, v), d[k] raises KeyError when k is absent.  *)
(*  - None is the record None.                                             *)
(*  - A Python list is a sequence; Python indices are 0-based and so are   *)
(*    the numbers the model stores (atm_index, start_idx, end_idx).        *)
(*  - pcr_oi, pcr_volume, the signal's oi_ratio and the strike score are   *)
(*    rounded to 2 decimals by the code; the model holds them as integer   *)
(*    hundredths (1.5 is 150).  The unrounded oi_ratio used by the         *)
(*    classifier is the exact fraction [n, d].                             *)
(*  - option_signals.py repeats two fragments: lines 127-139 are an         *)
(*    unfinished copy of the candidate loop and lines 224-258 a copy of    *)
(*    the scoring block that follows the return of line 222.  The model    *)
(*    follows the complete loop (140-183) and the first scoring block      *)
(*    (189-222).                                                           *)
(*  - Numbers are integers: prices, strikes and implied volatility are     *)
(*    whole numbers in every snapshot of the model.                        *)
(*  - A raised exception is recorded in err and ends the run (pc =         *)
(*    "raised"): run_complete_analysis has no try/except around the        *)
(*    analysis calls.                                                      *)
(***************************************************************************)
EXTENDS Integers, Sequences, FiniteSets, TLC

VARIABLES
    pc,                  \* position inside the loop body of run_complete_analysis
    idx,                 \* 1-based position of the loop in self.symbols
    data,                \* result of fetch_option_chain(symbol)
    analysis_data,       \* result of analyze_atm_strikes(data, symbol)
    pcr_oi,              \* locals of generate_advanced_signal ...
    pcr_volume,
    oi_ratio,
    bullish_conditions,
    bearish_conditions,
    signal_label,        \* the local `signal` of generate_advanced_signal
    option_type,
    candidate_strikes,   \* local of select_optimal_strike (after scoring)
    strike_data,
    signal,              \* result of generate_advanced_signal
    all_signals,         \* locals of run_complete_analysis
    market_data,
    err,                 \* exception that escaped, or "none"
    app_market_data,     \* backend/app.py: the global market_data
    job,                 \* backend/app.py: the thread of fetch_and_process_data
    request              \* backend/app.py: a thread serving GET /api/data/<symbol>

\* The state of option_signals.py
enginevars == <<pc, idx, data, analysis_data, pcr_oi, pcr_volume, oi_ratio,
                bullish_conditions, bearish_conditions, signal_label, option_type,
                candidate_strikes, strike_data, signal, all_signals, market_data, err>>

\* The state of backend/app.py
appvars == <<app_market_data, job, request>>

vars == <<pc, idx, data, analysis_data, pcr_oi, pcr_volume, oi_ratio,
          bullish_conditions, bearish_conditions, signal_label, option_type,
          candidate_strikes, strike_data, signal, all_signals, market_data, err,
          app_market_data, job, request>>

(***************************************************************************)
(* Bounds of the model                                                     *)
(***************************************************************************)
MaxShortRows == 3        \* rows of a snapshot whose rows come in any order
MaxStrikes == 13         \* rows of a snapshot with one row per strike

(***************************************************************************)
(* Python helpers                                                          *)
(***************************************************************************)
None == [none |-> TRUE]

Get(d, k, default) == IF k \in DOMAIN d THEN d[k] ELSE default

Abs(x) == IF x < 0 THEN -x ELSE x

Min2(a, b) == IF a < b THEN a ELSE b

Max2(a, b) == IF a > b THEN a ELSE b

RECURSIVE InsertSorted(_, _)
InsertSorted(s, x) ==
    IF s = <<>> THEN <<x>>
    ELSE IF x < Head(s) THEN <<x>> \o s
    ELSE <<Head(s)>> \o InsertSorted(Tail(s), x)

\* sorted(list): ascending, duplicates kept
RECURSIVE sorted(_)
sorted(s) ==
    IF s = <<>> THEN <<>>
    ELSE InsertSorted(sorted(SubSeq(s, 1, Len(s) - 1)), s[Len(s)])

\* list.index(x): 0-based position of the first occurrence (x must occur)
index(s, x) ==
    (CHOOSE i \in 1..Len(s) : s[i] = x /\ \A j \in 1..(i - 1) : s[j] # x) - 1

\* list[start:end] for 0 <= start, end <= len
Slice(s, start, end) == SubSeq(s, start + 1, end)

Elems(s) == {s[i] : i \in 1..Len(s)}

(***************************************************************************)
(* analyze_atm_strikes                                                     *)
(***************************************************************************)
\* [item for item in data['records']['data'] if item.get('expiryDate') == current_expiry]
OptionData(rows, current_expiry) ==
    SelectSeq(rows, LAMBDA item : Get(item, "expiryDate", "") = current_expiry)

\* [item['strikePrice'] for item in option_data]
Strikes(option_data) == [i \in 1..Len(option_data) |-> option_data[i].strikePrice]

\* min(strikes, key=lambda x: abs(x - current_price)): the first element, in
\* list order, whose key is minimal
AtmStrike(strikes, current_price) ==
    LET i == CHOOSE i \in 1..Len(strikes) :
                 /\ \A j \in 1..Len(strikes) :
                        Abs(strikes[i] - current_price) <= Abs(strikes[j] - current_price)
                 /\ \A j \in 1..(i - 1) :
                        Abs(strikes[j] - current_price) > Abs(strikes[i] - current_price)
    IN  strikes[i]

StartIdx(atm_index) == Max2(0, atm_index - 5)

\* Mutant of EndIdx: the slice ends one strike early
EndIdxOffByOne(all_strikes, atm_index) == Min2(Len(all_strikes), atm_index + 5)

EndIdx(all_strikes, atm_index) == Min2(Len(all_strikes), atm_index + 6)

\* Mutant of RelevantStrikes: the strikes before the ATM strike only
RelevantStrikesBelowAtm(all_strikes, atm_index) ==
    Slice(all_strikes, StartIdx(atm_index), atm_index)

\* all_strikes[start_idx:end_idx]
RelevantStrikes(all_strikes, atm_index) ==
    Slice(all_strikes, StartIdx(atm_index), EndIdx(all_strikes, atm_index))

\* [item for item in option_data if item['strikePrice'] in relevant_strikes]
RelevantData(option_data, relevant_strikes) ==
    SelectSeq(option_data, LAMBDA item : item.strikePrice \in Elems(relevant_strikes))

\* The exception analyze_atm_strikes raises on `d`, or "none"
AnalyzeRaises(d) ==
    IF d = None \/ "records" \notin DOMAIN d THEN "none"
    ELSE IF "underlyingValue" \notin DOMAIN d.records THEN "KeyError"
    ELSE IF "expiryDates" \notin DOMAIN d.records THEN "KeyError"
    ELSE IF d.records.expiryDates = <<>> THEN "IndexError"
    ELSE "none"

\* The value analyze_atm_strikes returns on `d` when it does not raise
analyze_atm_strikes(d, symbol) ==
    IF d = None \/ "records" \notin DOMAIN d THEN None
    ELSE
      LET records == d.records
          current_price == records.underlyingValue
          current_expiry == records.expiryDates[1]
          option_data == OptionData(records.data, current_expiry)
      IN  IF option_data = <<>> THEN None
          ELSE
            LET strikes == Strikes(option_data)
                atm_strike == AtmStrike(strikes, current_price)
                all_strikes == sorted(strikes)
                atm_index == index(all_strikes, atm_strike)
                relevant_strikes == RelevantStrikes(all_strikes, atm_index)
            IN  [symbol |-> symbol,
                 current_price |-> current_price,
                 atm_strike |-> atm_strike,
                 expiry |-> current_expiry,
                 strikes_analyzed |-> relevant_strikes,
                 data |-> RelevantData(option_data, relevant_strikes),
                 all_data |-> option_data]

(***************************************************************************)
(* Rounding and ratios                                                     *)
(***************************************************************************)
\* round(n / d, 2) in hundredths, d > 0: nearest hundredth; an exact tie goes
\* to the even hundredth (Python rounds the binary value of the quotient
\* correctly; a tie the snapshots of this model produce is exactly
\* representable, as 0.125 is)
Round2(n, d) ==
    LET q == (100 * n) \div d
        r == (100 * n) % d
    IN  IF 2 * r < d THEN q
        ELSE IF 2 * r > d THEN q + 1
        ELSE IF q % 2 = 0 THEN q ELSE q + 1

\* total += leg.get(field, 0) over the rows that hold the leg `side`
RECURSIVE SumGet(_, _, _)
SumGet(rows, side, field) ==
    IF rows = <<>> THEN 0
    ELSE (IF side \in DOMAIN Head(rows) THEN Get(Head(rows)[side], field, 0) ELSE 0)
         + SumGet(Tail(rows), side, field)

\* Mutant of RatioRound2: the quotient is cut to 2 decimals, not rounded
RatioTruncate2(pe, ce) == IF ce > 0 THEN (100 * pe) \div ce ELSE 0

\* pe / ce if ce > 0 else 0, rounded to 2 decimals (hundredths)
RatioRound2(pe, ce) == IF ce > 0 THEN Round2(pe, ce) ELSE 0

\* calculate_pcr(data): <<pcr_oi, pcr_volume>> in hundredths
calculate_pcr(rows) ==
    IF rows = <<>> THEN <<0, 0>>
    ELSE <<RatioRound2(SumGet(rows, "PE", "openInterest"),
                       SumGet(rows, "CE", "openInterest")),
           RatioRound2(SumGet(rows, "PE", "totalTradedVolume"),
                       SumGet(rows, "CE", "totalTradedVolume"))>>

\* sum(item[side]['openInterest'] for item in rows if side in item)
RECURSIVE SumOI(_, _)
SumOI(rows, side) ==
    IF rows = <<>> THEN 0
    ELSE (IF side \in DOMAIN Head(rows) THEN Head(rows)[side].openInterest ELSE 0)
         + SumOI(Tail(rows), side)

\* Mutant of OiRatioRows: the full expiration instead of the window
OiRatioRowsFullExpiry(analysis) == analysis.all_data

\* The rows generate_advanced_signal sums for oi_ratio: analysis_data['data']
OiRatioRows(analysis) == analysis.data

\* oi_ratio = total_pe_oi / total_ce_oi if total_ce_oi > 0 else 0, as the
\* exact fraction n / d
OiRatio(analysis) ==
    LET total_ce_oi == SumOI(OiRatioRows(analysis), "CE")
        total_pe_oi == SumOI(OiRatioRows(analysis), "PE")
    IN  IF total_ce_oi > 0 THEN [n |-> total_pe_oi, d |-> total_ce_oi]
        ELSE [n |-> 0, d |-> 1]

\* item[side]['openInterest'] raises KeyError when the leg has no such field
OiRatioRaises(analysis) ==
    IF \E i \in 1..Len(analysis.data) : \E side \in {"CE", "PE"} :
           /\ side \in DOMAIN analysis.data[i]
           /\ "openInterest" \notin DOMAIN analysis.data[i][side]
    THEN "KeyError" ELSE "none"

(***************************************************************************)
(* select_optimal_strike                                                   *)
(***************************************************************************)
\* Mutant of Qualifies: the leg is required, the side of the underlying is not
QualifiesIgnoresMoneyness(item, side, current_price) ==
    IF side = "CE" THEN "CE" \in DOMAIN item ELSE "PE" \in DOMAIN item

\* The side's moneyness test on a window row
\* ('CE' in item and strike >= current_price / 'PE' in item and strike <= current_price)
Qualifies(item, side, current_price) ==
    IF side = "CE"
    THEN "CE" \in DOMAIN item /\ item.strikePrice >= current_price
    ELSE "PE" \in DOMAIN item /\ item.strikePrice <= current_price

\* The candidate dict appended for a qualifying row
Candidate(item, side, analysis) ==
    LET strike == item.strikePrice
        strike_index == index(analysis.strikes_analyzed, strike)
        atm_index == index(analysis.strikes_analyzed, analysis.atm_strike)
        distance_from_atm == Abs(strike_index - atm_index)
        leg == IF side = "CE" THEN item.CE ELSE item.PE
    IN  [strike |-> strike,
         distance_from_atm |-> distance_from_atm,
         is_atm |-> (strike = analysis.atm_strike),
         is_near_atm |-> (distance_from_atm <= 1),
         oi |-> Get(leg, "openInterest", 0),
         coi |-> Get(leg, "changeinOpenInterest", 0),
         volume |-> Get(leg, "totalTradedVolume", 0),
         iv |-> Get(leg, "impliedVolatility", 0),
         delta |-> Get(leg, "delta", 0),
         gamma |-> Get(leg, "gamma", 0),
         ltp |-> Get(leg, "lastPrice", 0),
         change |-> Get(leg, "change", 0),
         change_percentage |-> Get(leg, "pChange", 0)]

\* Mutant of BaseScore: 10 points a step beyond the first
BaseScoreTenAStep(candidate) ==
    IF candidate.is_atm THEN 60
    ELSE IF candidate.is_near_atm THEN 50
    ELSE 40 - candidate.distance_from_atm * 10

\* Priority 1: 60 for the ATM strike, 50 within one step, else 40 - 5 * distance
BaseScore(candidate) ==
    IF candidate.is_atm THEN 60
    ELSE IF candidate.is_near_atm THEN 50
    ELSE 40 - candidate.distance_from_atm * 5

\* Mutant of OiScore: no cap
OiScoreUncapped(candidate) == candidate.oi

\* min(oi / 10000, 5), in ten-thousandths
OiScore(candidate) == Min2(candidate.oi, 50000)

\* coi / 500, in ten-thousandths
CoiScore(candidate) == 20 * candidate.coi

\* Mutant of VolumeScore: no cap
VolumeScoreUncapped(candidate) == 10 * candidate.volume

\* min(volume / 1000, 3), in ten-thousandths
VolumeScore(candidate) == Min2(10 * candidate.volume, 30000)

\* max(0, 5 - iv / 5), in ten-thousandths
IvScore(candidate) == Max2(0, 50000 - 2000 * candidate.iv)

\* 2 if change_percentage > 0
MomentumScore(candidate) == IF candidate.change_percentage > 0 THEN 2 ELSE 0

\* round(score, 2), in hundredths
Score(candidate) ==
    Round2(10000 * BaseScore(candidate) + OiScore(candidate) + CoiScore(candidate)
             + VolumeScore(candidate) + IvScore(candidate)
             + 10000 * MomentumScore(candidate),
           10000)

\* get_selection_reason: the list of reasons that is joined with " | "
get_selection_reason(candidate) ==
    (IF candidate.is_atm THEN <<"ATM Strike">>
     ELSE IF candidate.is_near_atm THEN <<"Near-ATM">>
     ELSE <<"steps from ATM">>)
    \o (IF candidate.coi > 0 THEN <<"Fresh Long Buildup">>
        ELSE IF candidate.coi < 0 THEN <<"Long Unwinding">>
        ELSE <<>>)
    \o (IF candidate.volume > 1000 THEN <<"High Volume">> ELSE <<>>)
    \o (IF candidate.iv # 0 /\ candidate.iv < 20 THEN <<"Low IV">> ELSE <<>>)

\* The scored candidate
Scored(candidate) ==
    [k \in DOMAIN candidate \cup {"score", "selection_reason"} |->
        IF k = "score" THEN Score(candidate)
        ELSE IF k = "selection_reason" THEN get_selection_reason(candidate)
        ELSE candidate[k]]

\* candidate_strikes after the scoring loop, in the order of the window rows
Candidates(analysis, side) ==
    LET rows == SelectSeq(analysis.data,
                          LAMBDA item : Qualifies(item, side, analysis.current_price))
    IN  [i \in 1..Len(rows) |-> Scored(Candidate(rows[i], side, analysis))]

\* Mutant of BestStrike: the first candidate, whatever its score
BestStrikeFirstCandidate(candidates) == candidates[1]

\* Mutant of BestStrike: the last maximal element (a scan that replaces the
\* best on >=)
BestStrikeLastMaximal(candidates) ==
    LET i == CHOOSE i \in 1..Len(candidates) :
                 /\ \A j \in 1..Len(candidates) : candidates[i].score >= candidates[j].score
                 /\ \A j \in (i + 1)..Len(candidates) : candidates[j].score < candidates[i].score
    IN  candidates[i]

\* max(candidate_strikes, key=lambda x: x['score']): the first maximal element
BestStrike(candidates) ==
    LET i == CHOOSE i \in 1..Len(candidates) :
                 /\ \A j \in 1..Len(candidates) : candidates[i].score >= candidates[j].score
                 /\ \A j \in 1..(i - 1) : candidates[j].score < candidates[i].score
    IN  candidates[i]

\* list.index raises ValueError when a row's strike or the ATM strike is not
\* in strikes_analyzed
SelectRaises(analysis) ==
    IF /\ analysis.data # <<>>
       /\ \/ analysis.atm_strike \notin Elems(analysis.strikes_analyzed)
          \/ \E i \in 1..Len(analysis.data) :
                 analysis.data[i].strikePrice \notin Elems(analysis.strikes_analyzed)
    THEN "ValueError" ELSE "none"

\* Mutant of select_optimal_strike: with no candidate for the side, the best
\* candidate of the opposite side is returned
select_optimal_strikeOrOpposite(analysis, side) ==
    IF analysis = None THEN None
    ELSE LET candidates == Candidates(analysis, side)
             others == Candidates(analysis, IF side = "CE" THEN "PE" ELSE "CE")
         IN  IF candidates # <<>> THEN BestStrike(candidates)
             ELSE IF others # <<>> THEN BestStrike(others)
             ELSE None

\* select_optimal_strike(analysis_data, option_type): the best candidate or None
select_optimal_strike(analysis, side) ==
    IF analysis = None THEN None
    ELSE LET candidates == Candidates(analysis, side)
         IN  IF candidates = <<>> THEN None ELSE BestStrike(candidates)

(***************************************************************************)
(* generate_advanced_signal                                                *)
(***************************************************************************)
\* Mutant of PcrBullish: the comparisons are not strict
PcrBullishNotStrict(pcr) == IF pcr >= 150 THEN 2 ELSE IF pcr >= 120 THEN 1 ELSE 0

\* pcr_oi > 1.5 -> 2, elif pcr_oi > 1.2 -> 1 (pcr in hundredths)
PcrBullish(pcr) == IF pcr > 150 THEN 2 ELSE IF pcr > 120 THEN 1 ELSE 0

\* Mutant of PcrBearish: the second test is an `if`, not an `elif`
PcrBearishBothTests(pcr) == (IF pcr < 60 THEN 2 ELSE 0) + (IF pcr < 80 THEN 1 ELSE 0)

\* pcr_oi < 0.6 -> 2, elif pcr_oi < 0.8 -> 1
PcrBearish(pcr) == IF pcr < 60 THEN 2 ELSE IF pcr < 80 THEN 1 ELSE 0

\* oi_ratio > 1.3 -> bullish += 1 (ratio the exact fraction n / d)
OiBullish(ratio) == IF 10 * ratio.n > 13 * ratio.d THEN 1 ELSE 0

\* elif oi_ratio < 0.7 -> bearish += 1
OiBearish(ratio) ==
    IF 10 * ratio.n > 13 * ratio.d THEN 0
    ELSE IF 10 * ratio.n < 7 * ratio.d THEN 1 ELSE 0

BullishConditions(pcr, ratio) == PcrBullish(pcr) + OiBullish(ratio)

BearishConditions(pcr, ratio) == PcrBearish(pcr) + OiBearish(ratio)

\* Mutant of FinalSignal: the bearish branches are labelled as sells
FinalSignalSellLabels(bullish, bearish) ==
    IF bullish >= 3 THEN
        [signal |-> "STRONG BUY", option_type |-> "CE", reason |-> "Strong Bullish"]
    ELSE IF bullish >= 2 THEN
        [signal |-> "BUY", option_type |-> "CE", reason |-> "Bullish"]
    ELSE IF bearish >= 3 THEN
        [signal |-> "STRONG SELL", option_type |-> "PE", reason |-> "Strong Bearish"]
    ELSE IF bearish >= 2 THEN
        [signal |-> "SELL", option_type |-> "PE", reason |-> "Bearish"]
    ELSE None

\* The if/elif chain that sets signal, option_type and reason; None for the
\* final else (return None)
FinalSignal(bullish, bearish) ==
    IF bullish >= 3 THEN
        [signal |-> "STRONG BUY", option_type |-> "CE", reason |-> "Strong Bullish"]
    ELSE IF bullish >= 2 THEN
        [signal |-> "BUY", option_type |-> "CE", reason |-> "Bullish"]
    ELSE IF bearish >= 3 THEN
        [signal |-> "STRONG BUY", option_type |-> "PE", reason |-> "Strong Bearish"]
    ELSE IF bearish >= 2 THEN
        [signal |-> "BUY", option_type |-> "PE", reason |-> "Bearish"]
    ELSE None

\* The dict returned when strike_data is not None (the timestamp, read from
\* the wall clock, is left out)
SignalRecord(analysis, final, strike, pcr, ratio) ==
    [symbol |-> analysis.symbol,
     signal |-> final.signal,
     option_type |-> final.option_type,
     strike_price |-> strike.strike,
     current_price |-> analysis.current_price,
     atm_strike |-> analysis.atm_strike,
     distance_from_atm |-> strike.distance_from_atm,
     option_ltp |-> strike.ltp,
     option_change |-> strike.change,
     option_change_percentage |-> strike.change_percentage,
     oi |-> strike.oi,
     coi |-> strike.coi,
     volume |-> strike.volume,
     iv |-> strike.iv,
     delta |-> strike.delta,
     gamma |-> strike.gamma,
     pcr_oi |-> pcr[1],
     pcr_volume |-> pcr[2],
     oi_ratio |-> Round2(ratio.n, ratio.d),
     strike_score |-> strike.score,
     selection_reason |-> strike.selection_reason,
     signal_reason |-> final.reason]

(***************************************************************************)
(* Snapshots fetch_option_chain may return (the parsed NSE response)       *)
(***************************************************************************)
Snapshot(underlying, expiries, rows) ==
    [records |-> [underlyingValue |-> underlying, expiryDates |-> expiries, data |-> rows]]

Row(strike, expiry) == [strikePrice |-> strike, expiryDate |-> expiry]

RowCE(strike, expiry, ce) == [strikePrice |-> strike, expiryDate |-> expiry, CE |-> ce]

RowPE(strike, expiry, pe) == [strikePrice |-> strike, expiryDate |-> expiry, PE |-> pe]

RowBoth(strike, expiry, ce, pe) ==
    [strikePrice |-> strike, expiryDate |-> expiry, CE |-> ce, PE |-> pe]

Leg(oi, coi, volume, iv, ltp, pchange) ==
    [openInterest |-> oi, changeinOpenInterest |-> coi, totalTradedVolume |-> volume,
     impliedVolatility |-> iv, lastPrice |-> ltp, pChange |-> pchange]

OiLeg(oi, volume) == Leg(oi, 0, volume, 0, 0, 0)

\* Rows without legs, in any order, strikes possibly repeated, two expirations
ShortRows == {Row(k, e) : k \in {100, 110, 120}, e \in {"E1", "E2"}}

ShortSnapshots ==
    {Snapshot(u, <<"E1", "E2">>, rows) :
        u \in {95, 100, 104, 105, 106, 110, 115, 125},
        rows \in UNION {[1..n -> ShortRows] : n \in 0..MaxShortRows}}

\* One row per strike 100, 110, ..., ascending or descending, no legs
Ladder(n) == [i \in 1..n |-> Row(100 + 10 * (i - 1), "E1")]

Reverse(s) == [i \in 1..Len(s) |-> s[Len(s) + 1 - i]]

LadderSnapshots ==
    {Snapshot(95 + 5 * j, <<"E1">>, rows) :
        j \in 0..(2 * MaxStrikes + 1),
        rows \in UNION {{Ladder(n), Reverse(Ladder(n))} : n \in 1..MaxStrikes}}

\* A ladder of MaxStrikes rows with the underlying at the highest strike: the
\* lowest strike lies outside the window.  Legs on the ATM row (open interest
\* a, b) and on the lowest row (c, d; -1: the leg is absent).
RatioRows(a, b, c, d, cv, pv) ==
    [i \in 1..MaxStrikes |->
        LET k == 100 + 10 * (i - 1)
        IN  IF i = MaxStrikes THEN RowBoth(k, "E1", OiLeg(a, cv), OiLeg(b, pv))
            ELSE IF i = 1 /\ c >= 0 /\ d >= 0 THEN RowBoth(k, "E1", OiLeg(c, 0), OiLeg(d, 0))
            ELSE IF i = 1 /\ c >= 0 THEN RowCE(k, "E1", OiLeg(c, 0))
            ELSE IF i = 1 /\ d >= 0 THEN RowPE(k, "E1", OiLeg(d, 0))
            ELSE Row(k, "E1")]

RatioSnapshots ==
    {Snapshot(100 + 10 * (MaxStrikes - 1), <<"E1">>, RatioRows(a, b, c, d, cv, pv)) :
        a \in {0, 10000},
        b \in {0, 6000, 7000, 8000, 13000, 14000},
        c \in {-1, 0, 10000, 20000},
        d \in {-1, 0, 5800, 6000, 6040, 6200, 7000, 7800, 8000, 8200, 9000, 11000,
               12000, 12040, 12200, 14000, 15000, 15040, 15200, 16000},
        cv \in {0, 3000},
        pv \in {0, 1000}}

\* Three rows with both legs around the underlying
LegProfiles ==
    {<<0, 0, 0, 0, 0>>, <<2000, 8000, 15, 120, 2>>, <<-1000, 500, 30, 50, -1>>}

ScoreRow(k, ce_oi, pe_oi, p) ==
    RowBoth(k, "E1", Leg(ce_oi, p[1], p[2], p[3], p[4], p[5]),
                     Leg(pe_oi, p[1], p[2], p[3], p[4], p[5]))

ScoreSnapshots ==
    {Snapshot(u, <<"E1">>,
              <<ScoreRow(100, c[1], q[1], p[1]), ScoreRow(110, c[2], q[2], p[2]),
                ScoreRow(120, c[3], q[3], p[3])>>) :
        u \in {104, 105, 110, 116},
        c \in [1..3 -> {10000, 60000}],
        q \in [1..3 -> {10000, 60000}],
        p \in [1..3 -> LegProfiles]}

\* The end-to-end scenario: underlying 20000, strikes 19500..20500 step 100,
\* call leg at 20000 with OI 50000, change-in-OI 2000, volume 8000, IV 15 and
\* a positive last price; the put at 20000 sets the ratio; with `neighbour` a
\* plain call leg stands at 20100
ScenarioRows(put_oi, pchange, neighbour) ==
    [i \in 1..11 |->
        LET k == 19500 + 100 * (i - 1)
        IN  IF k = 20000
            THEN RowBoth(k, "E1", Leg(50000, 2000, 8000, 15, 120, pchange), OiLeg(put_oi, 0))
            ELSE IF k = 20100 /\ neighbour THEN RowCE(k, "E1", OiLeg(0, 0))
            ELSE Row(k, "E1")]

ScenarioSnapshots ==
    {Snapshot(20000, <<"E1", "E2">>, ScenarioRows(put_oi, pchange, neighbour)) :
        put_oi \in {70000, 75000, 80000},
        pchange \in {-1, 0, 2},
        neighbour \in BOOLEAN}

\* Malformed or incomplete snapshots
BadSnapshots ==
    {[status |-> "error"]}
    \cup {[records |-> [expiryDates |-> <<"E1">>, data |-> rows]] :
             rows \in {<<>>, <<Row(100, "E1")>>}}
    \cup {[records |-> [underlyingValue |-> 105, expiryDates |-> <<>>, data |-> rows]] :
             rows \in {<<>>, <<Row(100, "E1")>>}}

\* Two rows with both legs and the underlying below or above every strike: one
\* side has no qualifying row, the other side has two
OneSidedSnapshots ==
    {Snapshot(u, <<"E1">>,
              <<RowBoth(100, "E1", OiLeg(o[1], 0), OiLeg(o[2], 0)),
                RowBoth(110, "E1", OiLeg(o[1], 0), OiLeg(o[2], 0))>>) :
        u \in {95, 125},
        o \in {<<10000, 20000>>, <<20000, 10000>>, <<10000, 10000>>}}

\* Legs as the exchange may send them: complete, open interest only, or
\* without open interest
PartialLegs ==
    {OiLeg(10000, 1000),
     [openInterest |-> 20000],
     [totalTradedVolume |-> 2000, lastPrice |-> 5]}

MissingFieldSnapshots ==
    {Snapshot(u, <<"E1">>,
              <<RowBoth(100, "E1", l[1], l[2]), RowBoth(110, "E1", l[3], l[4])>>) :
        u \in {100, 110},
        l \in [1..4 -> PartialLegs]}

\* Calls at 110 and 120 above an underlying of 104 whose scores are equal when
\* coi = 10000 (50 + 1 + 3 + 5 and 30 + 1 + 20 + 3 + 5) while their volumes,
\* both above the cap, may differ; the put at 100 makes the market bullish
TieRows(coi, v1, v2) ==
    <<RowPE(100, "E1", OiLeg(60000, 0)),
      RowCE(110, "E1", Leg(10000, 0, v1, 0, 0, 0)),
      RowCE(120, "E1", Leg(10000, coi, v2, 0, 0, 0))>>

TieSnapshots ==
    {Snapshot(104, <<"E1">>, rows) :
        rows \in UNION {{TieRows(coi, v1, v2), Reverse(TieRows(coi, v1, v2))} :
                            coi \in {9000, 10000, 11000},
                            v1 \in {4000, 8000},
                            v2 \in {4000, 8000}}}

\* A ladder of MaxStrikes rows with both legs on every row and the underlying
\* at the lowest, a middle or the highest strike: candidates at every distance
\* from the ATM strike that a window can hold
FullLadder(ce_oi, pe_oi) ==
    [i \in 1..MaxStrikes |->
        RowBoth(100 + 10 * (i - 1), "E1", OiLeg(ce_oi, 0), OiLeg(pe_oi, 0))]

FullLadderSnapshots ==
    {Snapshot(100 + 10 * a, <<"E1">>, FullLadder(o[1], o[2])) :
        a \in {0, 6, MaxStrikes - 1},
        o \in {<<10000, 20000>>, <<20000, 10000>>}}

Snapshots ==
    ShortSnapshots \cup LadderSnapshots \cup RatioSnapshots \cup ScoreSnapshots
    \cup ScenarioSnapshots \cup BadSnapshots \cup OneSidedSnapshots
    \cup MissingFieldSnapshots \cup TieSnapshots \cup FullLadderSnapshots

(***************************************************************************)
(* backend/app.py: the refresh job and GET /api/data/<symbol>              *)
(***************************************************************************)
\* The refresh job runs at most MaxCycles times (the call of __main__ and the
\* runs of the scheduler)
MaxCycles == 3

\* The keys of the global market_data
AppSymbols == {"NIFTY", "BANKNIFTY"}

\* The symbols a request may name
RequestSymbols == AppSymbols \cup {"FINNIFTY"}

\* {'data': None, 'timestamp': None, 'analysis': None, 'signals': None}
EmptyEntry == [data |-> None, timestamp |-> None, analysis |-> None, signals |-> None]

\* What option_chain_analyzer hands back in refresh cycle c for a symbol with
\* data, the trading signals of that cycle, and datetime.now() in that cycle
AnalyzedData(c) == [analysis |-> [item |-> "analysis", cycle |-> c]]

TradingSignals(c) == [item |-> "signals", cycle |-> c]

Now(c) == [item |-> "timestamp", cycle |-> c]

\* The module has been loaded: nothing stored, no job run, not yet serving
AppStart ==
    /\ app_market_data = [s \in AppSymbols |-> EmptyEntry]
    /\ job = [pc |-> "idle", cycle |-> 0, results |-> [s \in AppSymbols |-> None],
              todo |-> {}, serving |-> FALSE]
    /\ request = [pc |-> "idle", symbol |-> "NIFTY", response |-> None]

\* results = option_chain_analyzer.fetch_all_chains(): for each symbol the
\* analyzed data of this cycle, or nothing
FetchAllChains ==
    /\ job.pc = "idle"
    /\ job.cycle < MaxCycles
    /\ \E has \in [AppSymbols -> BOOLEAN] :
          job' = [job EXCEPT !.pc = "loop",
                             !.cycle = @ + 1,
                             !.results = [s \in AppSymbols |->
                                             IF has[s] THEN AnalyzedData(job.cycle + 1)
                                             ELSE None],
                             !.todo = AppSymbols]
    /\ UNCHANGED <<app_market_data, request>>
    /\ UNCHANGED enginevars

\* One turn of `for symbol, analyzed_data in results.items()`: with data the
\* entry of the symbol is replaced by a new dict, without data it is left
UpdateSymbol ==
    /\ job.pc = "loop"
    /\ \E symbol \in job.todo :
          LET analyzed_data == job.results[symbol]
          IN  /\ app_market_data' =
                     IF analyzed_data # None
                     THEN [app_market_data EXCEPT ![symbol] =
                              [data |-> analyzed_data,
                               analysis |-> analyzed_data.analysis,
                               signals |-> TradingSignals(job.cycle),
                               timestamp |-> Now(job.cycle)]]
                     ELSE app_market_data
              /\ job' = [job EXCEPT !.todo = @ \ {symbol}]
    /\ UNCHANGED request
    /\ UNCHANGED enginevars

\* fetch_and_process_data returns; after the first call __main__ starts the
\* scheduler and the server
JobReturns ==
    /\ job.pc = "loop"
    /\ job.todo = {}
    /\ job' = [job EXCEPT !.pc = "idle", !.serving = TRUE]
    /\ UNCHANGED <<app_market_data, request>>
    /\ UNCHANGED enginevars

\* A request for /api/data/<symbol> reaches get_symbol_data, in a thread of
\* its own
ReceiveRequest ==
    /\ job.serving
    /\ request.pc \in {"idle", "done"}
    /\ \E symbol \in RequestSymbols :
          request' = [pc |-> "check", symbol |-> symbol, response |-> None]
    /\ UNCHANGED <<app_market_data, job>>
    /\ UNCHANGED enginevars

\* if symbol in market_data and market_data[symbol]['analysis']: ... else 404
CheckAvailable ==
    /\ request.pc = "check"
    /\ IF /\ request.symbol \in DOMAIN app_market_data
          /\ app_market_data[request.symbol].analysis # None
       THEN request' = [request EXCEPT !.pc = "analysis"]
       ELSE request' = [request EXCEPT !.pc = "done",
                                       !.response = [status |-> 404]]
    /\ UNCHANGED <<app_market_data, job>>
    /\ UNCHANGED enginevars

\* 'analysis': market_data[symbol]['analysis']
ReadAnalysis ==
    /\ request.pc = "analysis"
    /\ request' = [request EXCEPT
                      !.pc = "signals",
                      !.response = [analysis |-> app_market_data[request.symbol].analysis]]
    /\ UNCHANGED <<app_market_data, job>>
    /\ UNCHANGED enginevars

\* 'signals': market_data[symbol]['signals']
ReadSignals ==
    /\ request.pc = "signals"
    /\ request' = [request EXCEPT
                      !.pc = "timestamp",
                      !.response = [analysis |-> request.response.analysis,
                                    signals |-> app_market_data[request.symbol].signals]]
    /\ UNCHANGED <<app_market_data, job>>
    /\ UNCHANGED enginevars

\* 'timestamp': market_data[symbol]['timestamp']; return jsonify(response_data)
ReadTimestamp ==
    /\ request.pc = "timestamp"
    /\ request' = [request EXCEPT
                      !.pc = "done",
                      !.response = [status |-> 200,
                                    analysis |-> request.response.analysis,
                                    signals |-> request.response.signals,
                                    timestamp |-> app_market_data[request.symbol].timestamp]]
    /\ UNCHANGED <<app_market_data, job>>
    /\ UNCHANGED enginevars

NextApp ==
    \/ FetchAllChains \/ UpdateSymbol \/ JobReturns
    \/ ReceiveRequest \/ CheckAvailable \/ ReadAnalysis \/ ReadSignals \/ ReadTimestamp

(***************************************************************************)
(* run_complete_analysis                                                   *)
(***************************************************************************)
\* self.symbols
symbols ==
    <<"NIFTY", "BANKNIFTY", "RELIANCE", "TCS", "INFY", "HDFCBANK", "ICICIBANK",
      "KOTAKBANK", "HDFC", "BHARTIARTL", "ITC", "SBIN">>

\* The entry appended to market_data
MarketEntry(symbol, analysis, sig) ==
    [symbol |-> symbol,
     current_price |-> analysis.current_price,
     atm_strike |-> analysis.atm_strike,
     strikes_analyzed |-> Len(analysis.strikes_analyzed),
     pcr_oi |-> IF sig # None THEN sig.pcr_oi ELSE 0,
     pcr_volume |-> IF sig # None THEN sig.pcr_volume ELSE 0,
     oi_ratio |-> IF sig # None THEN sig.oi_ratio ELSE 0]

Init ==
    /\ pc = "fetch"
    /\ idx = 1
    /\ data = None
    /\ analysis_data = None
    /\ pcr_oi = 0
    /\ pcr_volume = 0
    /\ oi_ratio = [n |-> 0, d |-> 1]
    /\ bullish_conditions = 0
    /\ bearish_conditions = 0
    /\ signal_label = "HOLD"
    /\ option_type = "None"
    /\ candidate_strikes = <<>>
    /\ strike_data = None
    /\ signal = None
    /\ all_signals = <<>>
    /\ market_data = <<>>
    /\ err = "none"
    /\ AppStart

\* data = self.fetch_option_chain(symbol); if data: ... else: (failed to fetch)
Fetch ==
    /\ pc = "fetch"
    /\ \E d \in Snapshots \cup {None} :
          /\ data' = d
          /\ pc' = IF d = None THEN "iter_end" ELSE "analyze"
    /\ UNCHANGED <<idx, analysis_data, pcr_oi, pcr_volume, oi_ratio, bullish_conditions,
                   bearish_conditions, signal_label, option_type, candidate_strikes,
                   strike_data, signal, all_signals, market_data, err>>
    /\ UNCHANGED appvars

\* analysis_data = self.analyze_atm_strikes(data, symbol); if analysis_data: ...
Analyze ==
    /\ pc = "analyze"
    /\ IF AnalyzeRaises(data) # "none"
       THEN /\ err' = AnalyzeRaises(data)
            /\ pc' = "raised"
            /\ UNCHANGED analysis_data
       ELSE /\ analysis_data' = analyze_atm_strikes(data, symbols[idx])
            /\ pc' = IF analysis_data' = None THEN "iter_end" ELSE "signal"
            /\ UNCHANGED err
    /\ UNCHANGED <<idx, data, pcr_oi, pcr_volume, oi_ratio, bullish_conditions,
                   bearish_conditions, signal_label, option_type, candidate_strikes,
                   strike_data, signal, all_signals, market_data>>
    /\ UNCHANGED appvars

\* Mutant of GenerateSignal: the scorer narrows the window's rows to the side's
\* rows in place
GenerateSignalNarrowsWindow ==
    /\ pc = "signal"
    /\ LET pcr == calculate_pcr(analysis_data.all_data)
           ratio == OiRatio(analysis_data)
           bullish == BullishConditions(pcr[1], ratio)
           bearish == BearishConditions(pcr[1], ratio)
           final == FinalSignal(bullish, bearish)
       IN  /\ pcr_oi' = pcr[1]
           /\ pcr_volume' = pcr[2]
           /\ IF OiRatioRaises(analysis_data) # "none"
              THEN /\ err' = OiRatioRaises(analysis_data)
                   /\ pc' = "raised"
                   /\ UNCHANGED <<oi_ratio, bullish_conditions, bearish_conditions,
                                  signal_label, option_type, candidate_strikes,
                                  strike_data, signal, analysis_data>>
              ELSE /\ oi_ratio' = ratio
                   /\ bullish_conditions' = bullish
                   /\ bearish_conditions' = bearish
                   /\ IF final = None
                      THEN /\ signal_label' = "HOLD"
                           /\ option_type' = "None"
                           /\ candidate_strikes' = <<>>
                           /\ strike_data' = None
                           /\ signal' = None
                           /\ pc' = "store"
                           /\ UNCHANGED <<err, analysis_data>>
                      ELSE /\ signal_label' = final.signal
                           /\ option_type' = final.option_type
                           /\ IF SelectRaises(analysis_data) # "none"
                              THEN /\ err' = SelectRaises(analysis_data)
                                   /\ pc' = "raised"
                                   /\ UNCHANGED <<candidate_strikes, strike_data, signal,
                                                  analysis_data>>
                              ELSE /\ candidate_strikes' =
                                          Candidates(analysis_data, final.option_type)
                                   /\ analysis_data' =
                                          [analysis_data EXCEPT !.data =
                                              SelectSeq(@, LAMBDA item :
                                                  Qualifies(item, final.option_type,
                                                            analysis_data.current_price))]
                                   /\ strike_data' =
                                          select_optimal_strike(analysis_data, final.option_type)
                                   /\ signal' =
                                          IF strike_data' # None
                                          THEN SignalRecord(analysis_data, final, strike_data',
                                                            pcr, ratio)
                                          ELSE None
                                   /\ pc' = "store"
                                   /\ UNCHANGED err
    /\ UNCHANGED <<idx, data, all_signals, market_data>>
    /\ UNCHANGED appvars

\* signal = self.generate_advanced_signal(analysis_data)
GenerateSignal ==
    /\ pc = "signal"
    /\ LET pcr == calculate_pcr(analysis_data.all_data)
           ratio == OiRatio(analysis_data)
           bullish == BullishConditions(pcr[1], ratio)
           bearish == BearishConditions(pcr[1], ratio)
           final == FinalSignal(bullish, bearish)
       IN  /\ pcr_oi' = pcr[1]
           /\ pcr_volume' = pcr[2]
           /\ IF OiRatioRaises(analysis_data) # "none"
              THEN /\ err' = OiRatioRaises(analysis_data)
                   /\ pc' = "raised"
                   /\ UNCHANGED <<oi_ratio, bullish_conditions, bearish_conditions,
                                  signal_label, option_type, candidate_strikes,
                                  strike_data, signal>>
              ELSE /\ oi_ratio' = ratio
                   /\ bullish_conditions' = bullish
                   /\ bearish_conditions' = bearish
                   /\ IF final = None
                      THEN /\ signal_label' = "HOLD"
                           /\ option_type' = "None"
                           /\ candidate_strikes' = <<>>
                           /\ strike_data' = None
                           /\ signal' = None
                           /\ pc' = "store"
                           /\ UNCHANGED err
                      ELSE /\ signal_label' = final.signal
                           /\ option_type' = final.option_type
                           /\ IF SelectRaises(analysis_data) # "none"
                              THEN /\ err' = SelectRaises(analysis_data)
                                   /\ pc' = "raised"
                                   /\ UNCHANGED <<candidate_strikes, strike_data, signal>>
                              ELSE /\ candidate_strikes' =
                                          Candidates(analysis_data, final.option_type)
                                   /\ strike_data' =
                                          select_optimal_strike(analysis_data, final.option_type)
                                   /\ signal' =
                                          IF strike_data' # None
                                          THEN SignalRecord(analysis_data, final, strike_data',
                                                            pcr, ratio)
                                          ELSE None
                                   /\ pc' = "store"
                                   /\ UNCHANGED err
    /\ UNCHANGED <<idx, data, analysis_data, all_signals, market_data>>
    /\ UNCHANGED appvars

\* Mutant of StoreResults: the signal is appended whenever there is a window
StoreResultsUnconditional ==
    /\ pc = "store"
    /\ all_signals' = Append(all_signals, signal)
    /\ market_data' = Append(market_data, MarketEntry(symbols[idx], analysis_data, signal))
    /\ pc' = "iter_end"
    /\ UNCHANGED <<idx, data, analysis_data, pcr_oi, pcr_volume, oi_ratio,
                   bullish_conditions, bearish_conditions, signal_label, option_type,
                   candidate_strikes, strike_data, signal, err>>
    /\ UNCHANGED appvars

\* if signal: all_signals.append(signal); market_data.append({...})
StoreResults ==
    /\ pc = "store"
    /\ all_signals' = IF signal # None THEN Append(all_signals, signal) ELSE all_signals
    /\ market_data' = Append(market_data, MarketEntry(symbols[idx], analysis_data, signal))
    /\ pc' = "iter_end"
    /\ UNCHANGED <<idx, data, analysis_data, pcr_oi, pcr_volume, oi_ratio,
                   bullish_conditions, bearish_conditions, signal_label, option_type,
                   candidate_strikes, strike_data, signal, err>>
    /\ UNCHANGED appvars

\* One pass of the loop body, for the first symbol
Next == Fetch \/ Analyze \/ GenerateSignal \/ StoreResults

Spec == Init /\ [][Next]_vars

(***************************************************************************)
(* run_complete_analysis: the loop over the symbols                        *)
(***************************************************************************)
\* The loop runs over the first LoopSymbols entries of self.symbols
LoopSymbols == 3

\* What fetch_option_chain may return inside the loop: a bullish, a bearish
\* and a neutral market with candidates on both sides, a bullish market with
\* no call at or above the underlying, a snapshot with no row, a snapshot
\* without underlying price, one with no expiration, and an error body
LoopRows(ce_oi, pe_oi) ==
    <<RowBoth(100, "E1", OiLeg(ce_oi, 0), OiLeg(pe_oi, 0)),
      RowBoth(110, "E1", OiLeg(ce_oi, 0), OiLeg(pe_oi, 0))>>

LoopSnapshots ==
    {Snapshot(105, <<"E1">>, LoopRows(10000, 20000)),
     Snapshot(105, <<"E1">>, LoopRows(20000, 10000)),
     Snapshot(105, <<"E1">>, LoopRows(10000, 10000)),
     Snapshot(125, <<"E1">>, LoopRows(10000, 20000)),
     Snapshot(105, <<"E1">>, <<>>),
     [records |-> [expiryDates |-> <<"E1">>, data |-> LoopRows(10000, 20000)]],
     [records |-> [underlyingValue |-> 105, expiryDates |-> <<>>, data |-> <<>>]],
     [status |-> "error"]}

\* data = self.fetch_option_chain(symbol), for the symbol at idx
FetchLoop ==
    /\ pc = "fetch"
    /\ \E d \in LoopSnapshots \cup {None} :
          /\ data' = d
          /\ pc' = IF d = None THEN "iter_end" ELSE "analyze"
    /\ UNCHANGED <<idx, analysis_data, pcr_oi, pcr_volume, oi_ratio, bullish_conditions,
                   bearish_conditions, signal_label, option_type, candidate_strikes,
                   strike_data, signal, all_signals, market_data, err>>
    /\ UNCHANGED appvars

\* time_module.sleep(2) and the next turn of `for symbol in self.symbols`; the
\* values left by the calls of the last turn are dead (each is assigned before
\* it is read again) and are dropped
NextSymbol ==
    /\ pc = "iter_end"
    /\ idx < LoopSymbols
    /\ idx' = idx + 1
    /\ pc' = "fetch"
    /\ data' = None
    /\ analysis_data' = None
    /\ pcr_oi' = 0
    /\ pcr_volume' = 0
    /\ oi_ratio' = [n |-> 0, d |-> 1]
    /\ bullish_conditions' = 0
    /\ bearish_conditions' = 0
    /\ signal_label' = "HOLD"
    /\ option_type' = "None"
    /\ candidate_strikes' = <<>>
    /\ strike_data' = None
    /\ signal' = None
    /\ UNCHANGED <<all_signals, market_data, err>>
    /\ UNCHANGED appvars

\* return all_signals, market_data
ReturnResults ==
    /\ pc = "iter_end"
    /\ idx = LoopSymbols
    /\ pc' = "done"
    /\ UNCHANGED <<idx, data, analysis_data, pcr_oi, pcr_volume, oi_ratio,
                   bullish_conditions, bearish_conditions, signal_label, option_type,
                   candidate_strikes, strike_data, signal, all_signals, market_data, err>>
    /\ UNCHANGED appvars

NextLoop ==
    FetchLoop \/ Analyze \/ GenerateSignal \/ StoreResults \/ NextSymbol \/ ReturnResults

SpecLoop == Init /\ [][NextLoop]_vars

(***************************************************************************)
(* generate_advanced_signal: the classifier on its own                     *)
(***************************************************************************)
\* pcr_oi ranges over 0.00 .. MaxPcr / 100 and oi_ratio over the tenths
\* 0.0 .. MaxRatioTenths / 10 (and the 0 of the zero guard)
MaxPcr == 200
MaxRatioTenths == 20

\* The values of pcr_oi and oi_ratio at line 298, any pair of them: pcr_oi is
\* taken over the rows of the expiration and oi_ratio over the window rows
InitClassifier ==
    /\ pc = "classify"
    /\ idx = 1
    /\ data = None
    /\ analysis_data = None
    /\ pcr_oi \in 0..MaxPcr
    /\ pcr_volume = 0
    /\ oi_ratio \in {[n |-> 0, d |-> 1]} \cup {[n |-> t, d |-> 10] : t \in 0..MaxRatioTenths}
    /\ bullish_conditions = 0
    /\ bearish_conditions = 0
    /\ signal_label = "HOLD"
    /\ option_type = "None"
    /\ candidate_strikes = <<>>
    /\ strike_data = None
    /\ signal = None
    /\ all_signals = <<>>
    /\ market_data = <<>>
    /\ err = "none"
    /\ AppStart

\* The scores and the final label and side (lines 305-347)
Classify ==
    /\ pc = "classify"
    /\ LET bullish == BullishConditions(pcr_oi, oi_ratio)
           bearish == BearishConditions(pcr_oi, oi_ratio)
           final == FinalSignal(bullish, bearish)
       IN  /\ bullish_conditions' = bullish
           /\ bearish_conditions' = bearish
           /\ signal_label' = IF final = None THEN "HOLD" ELSE final.signal
           /\ option_type' = IF final = None THEN "None" ELSE final.option_type
    /\ pc' = "classified"
    /\ UNCHANGED <<idx, data, analysis_data, pcr_oi, pcr_volume, oi_ratio, candidate_strikes,
                   strike_data, signal, all_signals, market_data, err>>
    /\ UNCHANGED appvars

NextClassifier == Classify

SpecClassifier == InitClassifier /\ [][NextClassifier]_vars

\* backend/app.py from the load of the module on
SpecApp == Init /\ [][NextApp]_vars

(***************************************************************************)
(* Properties                                                              *)
(***************************************************************************)
\* generate_advanced_signal has returned for the snapshot in `data`
Generated == pc = "store"

\* analyze_atm_strikes has returned a window for the snapshot in `data`
HasWindow == pc \in {"signal", "store"} /\ analysis_data # None

\* Sum of leg[field] over the rows that hold the leg and the field
RECURSIVE SumOver(_, _)
SumOver(S, f) ==
    IF S = {} THEN 0
    ELSE LET i == CHOOSE i \in S : TRUE IN f[i] + SumOver(S \ {i}, f)

LegTotal(rows, side, field) ==
    SumOver({i \in 1..Len(rows) : side \in DOMAIN rows[i] /\ field \in DOMAIN rows[i][side]},
            [i \in 1..Len(rows) |->
                IF side \in DOMAIN rows[i] /\ field \in DOMAIN rows[i][side]
                THEN rows[i][side][field] ELSE 0])

\* The rows of the chosen expiration, read from the snapshot itself
ExpiryRows(d) ==
    SelectSeq(d.records.data,
              LAMBDA item : "expiryDate" \in DOMAIN item
                            /\ item.expiryDate = d.records.expiryDates[1])

\* C1: when two strikes of the chosen expiration are at equal distance from the
\* underlying price, the ATM strike is the lower one, whatever the order of the
\* rows: no strike of the expiration below the ATM strike is as close as it
C1_TieResolvesToLower ==
    HasWindow =>
        \A i \in 1..Len(analysis_data.all_data) :
            LET k == analysis_data.all_data[i].strikePrice
            IN  Abs(k - analysis_data.current_price)
                    = Abs(analysis_data.atm_strike - analysis_data.current_price)
                => analysis_data.atm_strike <= k

\* C2: the in-window strikes are the strikes at positions max(0, atmIndex - 5)
\* .. min(len - 1, atmIndex + 5) inclusive of the ascending strike list; the
\* window has at most 11 strikes; 3 strikes with ATM at index 1 give all 3
C2_WindowIsIndexRange ==
    HasWindow =>
        LET all == sorted(Strikes(ExpiryRows(data)))
            a == index(all, analysis_data.atm_strike)
            lo == IF a - 5 < 0 THEN 0 ELSE a - 5
            hi == IF a + 5 > Len(all) - 1 THEN Len(all) - 1 ELSE a + 5
            w == analysis_data.strikes_analyzed
        IN  /\ Len(w) = hi - lo + 1
            /\ \A p \in lo..hi : w[p - lo + 1] = all[p + 1]
            /\ Len(w) <= 11
            /\ (Len(all) = 3 /\ a = 1) => w = all

\* C2 witness: more than 11 strikes, ATM near the low end: the window is cut
\* at the low end and not moved up
C2_Witness ==
    /\ HasWindow
    /\ Len(analysis_data.all_data) >= 12
    /\ index(sorted(Strikes(analysis_data.all_data)), analysis_data.atm_strike) = 2
    /\ Len(analysis_data.strikes_analyzed) = 8

\* C3: strikes_analyzed is strictly ascending, with no duplicate strike
C3_WindowStrictlyAscending ==
    HasWindow =>
        \A i, j \in 1..Len(analysis_data.strikes_analyzed) :
            i < j => analysis_data.strikes_analyzed[i] < analysis_data.strikes_analyzed[j]

\* The snapshot lacks an underlying price, has an empty expiration list, or has
\* no row of the first expiration
Incomplete(d) ==
    /\ d # None
    /\ "records" \in DOMAIN d
    /\ \/ "underlyingValue" \notin DOMAIN d.records
       \/ d.records.expiryDates = <<>>
       \/ ExpiryRows(d) = <<>>

\* C4: on an incomplete snapshot the Window Selector returns None and does not
\* raise
C4_IncompleteGivesNoWindow ==
    (pc \notin {"fetch", "analyze"} /\ Incomplete(data)) =>
        (err = "none" /\ analysis_data = None)

\* C5: every CE candidate has strike >= underlying and every PE candidate has
\* strike <= underlying, the best strike included, and a window row whose
\* strike equals the underlying and that holds the side's leg is a candidate
C5_MoneynessFilter ==
    Generated =>
        /\ \A i \in 1..Len(candidate_strikes) :
              /\ option_type = "CE" => candidate_strikes[i].strike >= analysis_data.current_price
              /\ option_type = "PE" => candidate_strikes[i].strike <= analysis_data.current_price
        /\ strike_data # None =>
              /\ option_type = "CE" => strike_data.strike >= analysis_data.current_price
              /\ option_type = "PE" => strike_data.strike <= analysis_data.current_price
        /\ option_type \in {"CE", "PE"} =>
              \A i \in 1..Len(analysis_data.data) :
                  (/\ analysis_data.data[i].strikePrice = analysis_data.current_price
                   /\ option_type \in DOMAIN analysis_data.data[i])
                  => \E j \in 1..Len(candidate_strikes) :
                         candidate_strikes[j].strike = analysis_data.current_price

\* C5 witness: side CE, a window row with a call leg below the underlying, and a
\* candidate exactly at the underlying
C5_Witness ==
    /\ Generated
    /\ option_type = "CE"
    /\ \E i \in 1..Len(analysis_data.data) :
          /\ "CE" \in DOMAIN analysis_data.data[i]
          /\ analysis_data.data[i].strikePrice < analysis_data.current_price
    /\ \E j \in 1..Len(candidate_strikes) :
          candidate_strikes[j].strike = analysis_data.current_price

\* The classifier's scores with the pcr_oi thresholds t2 > t1 (bullish) and
\* u2 < u1 (bearish), in hundredths, and the oi_ratio thresholds 1.3 and 0.7
BullishWith(t2, t1) ==
    (IF pcr_oi > t2 THEN 2 ELSE IF pcr_oi > t1 THEN 1 ELSE 0)
    + (IF 10 * oi_ratio.n > 13 * oi_ratio.d THEN 1 ELSE 0)

BearishWith(u2, u1) ==
    (IF pcr_oi < u2 THEN 2 ELSE IF pcr_oi < u1 THEN 1 ELSE 0)
    + (IF 10 * oi_ratio.n < 7 * oi_ratio.d THEN 1 ELSE 0)

\* C6 as stated: bullish +2 if pcr_oi > 1.4, else +1 if pcr_oi > 1.1; bearish
\* +2 if pcr_oi < 0.7, else +1 if pcr_oi < 0.9; +1 bullish if oi_ratio > 1.3,
\* +1 bearish if oi_ratio < 0.7
C6_ThresholdsAsStated ==
    Generated =>
        /\ bullish_conditions = BullishWith(140, 110)
        /\ bearish_conditions = BearishWith(70, 90)

\* C6 amended: the pcr_oi thresholds are 1.5 and 1.2 (bullish), 0.6 and 0.8
\* (bearish), all strict; pcr_oi exactly 1.4 (and exactly 1.5) adds 1 to bullish
C6_ThresholdsOfCode ==
    Generated =>
        /\ bullish_conditions = BullishWith(150, 120)
        /\ bearish_conditions = BearishWith(60, 80)
        /\ pcr_oi \in {140, 150} =>
              bullish_conditions = 1 + (IF 10 * oi_ratio.n > 13 * oi_ratio.d THEN 1 ELSE 0)

\* C6 witness: pcr_oi is exactly 1.5 and bullish got 1 from it
C6_Witness ==
    /\ Generated
    /\ pcr_oi = 150
    /\ 10 * oi_ratio.n <= 13 * oi_ratio.d
    /\ bullish_conditions = 1

\* The label and side for a pair of scores, the bearish labels given
LabelsWith(strong_bear, bear) ==
    /\ bullish_conditions >= 3 => (signal_label = "STRONG BUY" /\ option_type = "CE")
    /\ bullish_conditions = 2 => (signal_label = "BUY" /\ option_type = "CE")
    /\ (bullish_conditions < 2 /\ bearish_conditions >= 3) =>
          (signal_label = strong_bear /\ option_type = "PE")
    /\ (bullish_conditions < 2 /\ bearish_conditions = 2) =>
          (signal_label = bear /\ option_type = "PE")
    /\ (bullish_conditions < 2 /\ bearish_conditions < 2) =>
          (signal_label = "HOLD" /\ option_type = "None" /\ signal = None)
    /\ signal # None =>
          (signal.signal = signal_label /\ signal.option_type = option_type)

\* C7 as stated: bullish >= 3 STRONG BUY / CE, bullish = 2 BUY / CE, bearish >= 3
\* STRONG SELL / PE, bearish = 2 SELL / PE, otherwise no signal
C7_LabelsAsStated == Generated => LabelsWith("STRONG SELL", "SELL")

\* C7 amended: the bearish labels are STRONG BUY / PE and BUY / PE (the signal
\* is always to buy an option: a call when bullish, a put when bearish)
C7_LabelsOfCode == Generated => LabelsWith("STRONG BUY", "BUY")

\* C7 witness: a bearish score of 3 and a signal emitted for it
C7_Witness ==
    /\ Generated
    /\ bearish_conditions >= 3
    /\ signal # None
    /\ signal.option_type = "PE"

\* r (hundredths) is the exact value of pe / ce, or 0 when ce = 0
ExactRatio(r, pe, ce) == IF ce > 0 THEN r * ce = 100 * pe ELSE r = 0

\* r (hundredths) is pe / ce rounded to the nearest hundredth, or 0 when ce = 0
NearestRatio(r, pe, ce) == IF ce > 0 THEN 2 * Abs(r * ce - 100 * pe) <= ce ELSE r = 0

\* C8 as stated: pcr_oi = sum put OI / sum call OI and pcr_volume = sum put
\* volume / sum call volume over the rows of the chosen expiration, 0 when the
\* call sum is 0, and nothing is raised
C8_PcrExact ==
    Generated =>
        /\ ExactRatio(pcr_oi, LegTotal(ExpiryRows(data), "PE", "openInterest"),
                              LegTotal(ExpiryRows(data), "CE", "openInterest"))
        /\ ExactRatio(pcr_volume, LegTotal(ExpiryRows(data), "PE", "totalTradedVolume"),
                                  LegTotal(ExpiryRows(data), "CE", "totalTradedVolume"))
        /\ err = "none"

\* C8 amended: pcr_oi and pcr_volume are those quotients rounded to 2 decimals
C8_PcrRounded ==
    Generated =>
        /\ NearestRatio(pcr_oi, LegTotal(ExpiryRows(data), "PE", "openInterest"),
                                LegTotal(ExpiryRows(data), "CE", "openInterest"))
        /\ NearestRatio(pcr_volume, LegTotal(ExpiryRows(data), "PE", "totalTradedVolume"),
                                    LegTotal(ExpiryRows(data), "CE", "totalTradedVolume"))
        /\ err = "none"

\* C8 witness: a row with a call leg and no put leg, and a quotient that is not
\* a whole number of hundredths and rounds up
C8_Witness ==
    /\ Generated
    /\ \E i \in 1..Len(analysis_data.all_data) :
          /\ "CE" \in DOMAIN analysis_data.all_data[i]
          /\ "PE" \notin DOMAIN analysis_data.all_data[i]
    /\ LET pe == LegTotal(ExpiryRows(data), "PE", "openInterest")
           ce == LegTotal(ExpiryRows(data), "CE", "openInterest")
       IN  ce > 0 /\ pcr_oi * ce > 100 * pe

\* The rows of the chosen expiration whose strike is an in-window strike
WindowRows ==
    SelectSeq(ExpiryRows(data),
              LAMBDA item : \E p \in 1..Len(analysis_data.strikes_analyzed) :
                                analysis_data.strikes_analyzed[p] = item.strikePrice)

\* C9: oi_ratio = sum put OI / sum call OI over the in-window rows only, and 0
\* when the window's call OI is 0; nothing is raised
C9_OiRatioOverWindow ==
    Generated =>
        LET pe == LegTotal(WindowRows, "PE", "openInterest")
            ce == LegTotal(WindowRows, "CE", "openInterest")
        IN  /\ ce > 0 => (oi_ratio.n = pe /\ oi_ratio.d = ce)
            /\ ce = 0 => (oi_ratio.n = 0 /\ oi_ratio.d = 1)
            /\ err = "none"

\* C9 witness: the window has put OI and no call OI, the expiration has call
\* OI outside the window
C9_Witness ==
    /\ Generated
    /\ LegTotal(WindowRows, "CE", "openInterest") = 0
    /\ LegTotal(WindowRows, "PE", "openInterest") > 0
    /\ LegTotal(ExpiryRows(data), "CE", "openInterest") > 0
    /\ oi_ratio.n = 0

\* The end-to-end snapshot: underlying 20000, 11 rows of the first expiration
\* at strikes 19500..20500 step 100, a call leg at 20000 with OI 50000,
\* change-in-OI 2000, volume 8000, IV 15 and a positive last price
IsScenario(d) ==
    /\ d # None
    /\ "records" \in DOMAIN d
    /\ "underlyingValue" \in DOMAIN d.records
    /\ d.records.underlyingValue = 20000
    /\ d.records.expiryDates # <<>>
    /\ LET rows == ExpiryRows(d)
       IN  /\ Len(rows) = 11
           /\ \A i \in 1..11 : rows[i].strikePrice = 19500 + 100 * (i - 1)
           /\ "CE" \in DOMAIN rows[6]
           /\ rows[6].CE.openInterest = 50000
           /\ rows[6].CE.changeinOpenInterest = 2000
           /\ rows[6].CE.totalTradedVolume = 8000
           /\ rows[6].CE.impliedVolatility = 15
           /\ rows[6].CE.lastPrice > 0

\* Every call leg of the scenario other than the one at 20000 carries open
\* interest only
PlainOtherCalls(d) ==
    \A i \in 1..Len(ExpiryRows(d)) :
        (i # 6 /\ "CE" \in DOMAIN ExpiryRows(d)[i]) =>
            LET ce == ExpiryRows(d)[i].CE
            IN  /\ ce.changeinOpenInterest = 0
                /\ ce.totalTradedVolume = 0
                /\ ce.pChange = 0

NoRowFor(side) ==
    \A i \in 1..Len(analysis_data.data) :
        LET item == analysis_data.data[i]
        IN  \/ side \notin DOMAIN item
            \/ side = "CE" /\ item.strikePrice < analysis_data.current_price
            \/ side = "PE" /\ item.strikePrice > analysis_data.current_price

\* C11: when the classifier yields a label and a side and no row of the window
\* qualifies for that side, generate_advanced_signal returns None: nothing is
\* raised and no strike of the opposite side is taken
C11_NoCandidateNoSignal ==
    (/\ pc \in {"store", "raised"}
     /\ analysis_data # None
     /\ signal_label # "HOLD"
     /\ NoRowFor(option_type)) =>
        /\ err = "none"
        /\ candidate_strikes = <<>>
        /\ strike_data = None
        /\ signal = None

\* C11 witness: a label and a side, no row for that side, rows for the
\* opposite side, and no signal
C11_Witness ==
    /\ Generated
    /\ signal_label \in {"STRONG BUY", "BUY"}
    /\ NoRowFor(option_type)
    /\ ~NoRowFor(IF option_type = "CE" THEN "PE" ELSE "CE")
    /\ signal = None

\* C12: in the loop over the symbols a malformed or incomplete snapshot never
\* raises to the caller of run_complete_analysis, so the loop is never left
\* before its end
C12_LoopAbsorbsBadSnapshots == pc # "raised" /\ err = "none"

\* C14: all_signals holds signal records only, at most one for each symbol, and
\* a record is appended for the symbol of the turn only, when its snapshot was
\* fetched, gave a window, got a label other than HOLD and had a candidate for
\* the label's side
C14_AtMostOneSignalPerSymbol ==
    /\ [](/\ \A i \in 1..Len(all_signals) : all_signals[i] # None
          /\ \A i, j \in 1..Len(all_signals) :
                 i # j => all_signals[i].symbol # all_signals[j].symbol)
    /\ [][all_signals' # all_signals =>
             /\ signal # None
             /\ all_signals' = Append(all_signals, signal)
             /\ signal.symbol = symbols[idx]
             /\ data # None
             /\ analysis_data # None
             /\ analysis_data.symbol = symbols[idx]
             /\ signal_label \in {"STRONG BUY", "BUY"}
             /\ signal.signal = signal_label
             /\ option_type \in {"CE", "PE"}
             /\ \E i \in 1..Len(candidate_strikes) :
                    candidate_strikes[i].strike = signal.strike_price]_vars

\* C14 witness: the loop has ended with windows for all symbols and signals
\* for two of them
C14_Witness ==
    /\ pc = "done"
    /\ Len(market_data) = LoopSymbols
    /\ Len(all_signals) = 2
    /\ all_signals[1].symbol # symbols[1]

\* Some leg of a row of the chosen expiration lacks one of the fields read
LegFields ==
    {"openInterest", "changeinOpenInterest", "totalTradedVolume", "impliedVolatility",
     "lastPrice"}

SomeFieldMissing(d) ==
    \E i \in 1..Len(ExpiryRows(d)) : \E side \in {"CE", "PE"} :
        /\ side \in DOMAIN ExpiryRows(d)[i]
        /\ ~(LegFields \subseteq DOMAIN ExpiryRows(d)[i][side])

\* C13: a leg field missing from a row is read as 0 wherever it is read: the
\* run raises nothing, and the window oi_ratio is the quotient of the sums in
\* which a missing openInterest counts as 0
C13_MissingFieldsReadAsZero ==
    (/\ pc \in {"store", "raised"}
     /\ "records" \in DOMAIN data
     /\ ~Incomplete(data)
     /\ SomeFieldMissing(data)) =>
        /\ err = "none"
        /\ LET pe == LegTotal(WindowRows, "PE", "openInterest")
               ce == LegTotal(WindowRows, "CE", "openInterest")
           IN  IF ce > 0 THEN oi_ratio.n = pe /\ oi_ratio.d = ce
               ELSE oi_ratio.n = 0 /\ oi_ratio.d = 1

\* Windows of at most MaxPermutedRows rows are tried in every order of their
\* rows, longer ones in the given and in the reverse order
MaxPermutedRows == 3

RowOrders(n) ==
    IF n <= MaxPermutedRows
    THEN {f \in [1..n -> 1..n] : \A i, j \in 1..n : i # j => f[i] # f[j]}
    ELSE {[i \in 1..n |-> i], [i \in 1..n |-> n + 1 - i]}

\* The window with its rows in the order f
Permuted(analysis, f) ==
    [analysis EXCEPT !.data = [i \in 1..Len(analysis.data) |-> analysis.data[f[i]]]]

\* C15 as stated: the best candidate depends on the order of the window rows
\* through the (score, volume) ranking only: in whatever order the rows come,
\* the best candidate has the same score and the same volume
C15_BestByRankingInAnyOrder ==
    (Generated /\ strike_data # None) =>
        \A f \in RowOrders(Len(analysis_data.data)) :
            LET best == select_optimal_strike(Permuted(analysis_data, f), option_type)
            IN  /\ best.score = strike_data.score
                /\ best.volume = strike_data.volume

\* C15 amended: in whatever order the rows come, the scored candidates are the
\* same and the best candidate has the same score; the candidate returned is
\* the one of the earliest row among those with the highest score
C15_BestIsFirstOfHighest ==
    (Generated /\ strike_data # None) =>
        \A f \in RowOrders(Len(analysis_data.data)) :
            LET window == Permuted(analysis_data, f)
                cands == Candidates(window, option_type)
                best == select_optimal_strike(window, option_type)
                first == CHOOSE k \in 1..Len(cands) :
                             /\ cands[k].score = strike_data.score
                             /\ \A j \in 1..(k - 1) : cands[j].score # strike_data.score
            IN  /\ Len(cands) = Len(candidate_strikes)
                /\ Elems(cands) = Elems(candidate_strikes)
                /\ best.score = strike_data.score
                /\ \A k \in 1..Len(cands) : cands[k].score <= best.score
                /\ best = cands[first]

\* C15 witness: the same window with its rows in another order gives another
\* strike, of the same score and of another volume
C15_Witness ==
    /\ Generated
    /\ strike_data # None
    /\ \E f \in RowOrders(Len(analysis_data.data)) :
          LET best == select_optimal_strike(Permuted(analysis_data, f), option_type)
          IN  /\ best.strike # strike_data.strike
              /\ best.score = strike_data.score
              /\ best.volume # strike_data.volume

\* The strikes of the window rows that hold the side's leg at or beyond the
\* underlying price, in the order of the rows
StrikesFor(side) ==
    Strikes(SelectSeq(analysis_data.data,
                      LAMBDA item :
                          /\ side \in DOMAIN item
                          /\ side = "CE" => item.strikePrice >= analysis_data.current_price
                          /\ side = "PE" => item.strikePrice <= analysis_data.current_price))

\* C16 as stated: the best candidate has the maximum score, and among the
\* candidates with the maximum score it has the maximum volume
C16_BestBySpecRanking ==
    (Generated /\ strike_data # None) =>
        \A i \in 1..Len(candidate_strikes) :
            /\ candidate_strikes[i].score <= strike_data.score
            /\ candidate_strikes[i].score = strike_data.score =>
                  candidate_strikes[i].volume <= strike_data.volume

\* C16 amended: the candidates stand in the order of the window rows; the best
\* candidate has the maximum score, and among the candidates with the maximum
\* score it is the first one, whatever the volumes
C16_BestIsFirstMaximal ==
    (Generated /\ strike_data # None) =>
        /\ [i \in 1..Len(candidate_strikes) |-> candidate_strikes[i].strike]
               = StrikesFor(option_type)
        /\ \E k \in 1..Len(candidate_strikes) :
              /\ candidate_strikes[k] = strike_data
              /\ \A i \in 1..Len(candidate_strikes) :
                     candidate_strikes[i].score <= strike_data.score
              /\ \A j \in 1..(k - 1) : candidate_strikes[j].score < strike_data.score

\* C16 witness: a later candidate has the score of the best one and a higher
\* volume
C16_Witness ==
    /\ Generated
    /\ strike_data # None
    /\ \E i \in 1..Len(candidate_strikes) :
          /\ candidate_strikes[i].score = strike_data.score
          /\ candidate_strikes[i].volume > strike_data.volume

\* The base score of a scored candidate, by its distance from the ATM strike
BaseOf(c) ==
    IF c.distance_from_atm = 0 THEN 60
    ELSE IF c.distance_from_atm = 1 THEN 50
    ELSE 40 - 5 * c.distance_from_atm

\* score (hundredths) is the sum (ten-thousandths) rounded to 2 decimals
RoundsTo(score, sum) == Abs(100 * score - sum) <= 50

\* C17 as stated: on top of the base score a candidate's score adds
\* oi / 10000 and volume / 1000 with no cap, coi / 500, max(0, 5 - iv / 5),
\* and 1 if lastPrice > 0
C17_TermsAsStated ==
    Generated =>
        \A i \in 1..Len(candidate_strikes) :
            LET c == candidate_strikes[i]
            IN  RoundsTo(c.score,
                         10000 * BaseOf(c) + c.oi + 20 * c.coi + 10 * c.volume
                           + (IF 2000 * c.iv < 50000 THEN 50000 - 2000 * c.iv ELSE 0)
                           + (IF c.ltp > 0 THEN 10000 ELSE 0))

\* C17 amended: the score adds min(oi / 10000, 5), coi / 500,
\* min(volume / 1000, 3), max(0, 5 - iv / 5), and 2 if pChange > 0; lastPrice
\* adds nothing; the sum is rounded to 2 decimals
C17_TermsOfCode ==
    Generated =>
        \A i \in 1..Len(candidate_strikes) :
            LET c == candidate_strikes[i]
            IN  RoundsTo(c.score,
                         10000 * BaseOf(c)
                           + (IF c.oi < 50000 THEN c.oi ELSE 50000)
                           + 20 * c.coi
                           + (IF c.volume < 3000 THEN 10 * c.volume ELSE 30000)
                           + (IF 2000 * c.iv < 50000 THEN 50000 - 2000 * c.iv ELSE 0)
                           + (IF c.change_percentage > 0 THEN 20000 ELSE 0))

\* C17 witness: a candidate with open interest above 50000, volume above 3000
\* and a positive pChange, and one with a negative change in open interest, a
\* positive last price and a negative pChange
C17_Witness ==
    /\ Generated
    /\ \E i, j \in 1..Len(candidate_strikes) :
          /\ candidate_strikes[i].oi > 50000
          /\ candidate_strikes[i].volume > 3000
          /\ candidate_strikes[i].change_percentage > 0
          /\ candidate_strikes[j].coi < 0
          /\ candidate_strikes[j].ltp > 0
          /\ candidate_strikes[j].change_percentage < 0

\* The first position of strike k in the window's strike list
FirstPos(k) ==
    CHOOSE p \in 1..Len(analysis_data.strikes_analyzed) :
        /\ analysis_data.strikes_analyzed[p] = k
        /\ \A q \in 1..(p - 1) : analysis_data.strikes_analyzed[q] # k

\* 60 at distance 0, 50 at distance 1, otherwise max(0, 40 - 5 * d)
TierBase(d) ==
    IF d = 0 THEN 60
    ELSE IF d = 1 THEN 50
    ELSE IF 40 - 5 * d > 0 THEN 40 - 5 * d ELSE 0

\* C18: a candidate's base score is TierBase of its index distance from the
\* ATM strike inside strikes_analyzed, it is never negative, and it is the
\* base of the candidate's score
C18_BaseScoreByDistance ==
    Generated =>
        \A i \in 1..Len(candidate_strikes) :
            LET c == candidate_strikes[i]
                d == Abs(FirstPos(c.strike) - FirstPos(analysis_data.atm_strike))
            IN  /\ c.distance_from_atm = d
                /\ BaseScore(c) = TierBase(d)
                /\ BaseScore(c) >= 0
                /\ RoundsTo(c.score,
                            10000 * TierBase(d) + OiScore(c) + CoiScore(c) + VolumeScore(c)
                              + IvScore(c) + 10000 * MomentumScore(c))

\* C18 witness: candidates at distance 0, 1 and 5 from the ATM strike
C18_Witness ==
    /\ Generated
    /\ \A d \in {0, 1, 5} :
          \E i \in 1..Len(candidate_strikes) : candidate_strikes[i].distance_from_atm = d

\* C19: the step that runs the scorer (with a candidate or with none) leaves
\* the window as it was: underlying price, ATM strike, strike list, window
\* rows and rows of the expiration, and the snapshot they come from
C19_ScorerMutatesNothing ==
    [][pc = "signal" => (analysis_data' = analysis_data /\ data' = data)]_vars

\* C19 witness: the scorer has returned a candidate for a window that holds
\* rows that are no candidates, and the window still holds every row of its
\* strikes
C19_Witness ==
    /\ Generated
    /\ strike_data # None
    /\ Len(candidate_strikes) < Len(analysis_data.data)
    /\ analysis_data.data = WindowRows

\* C20: the ATM strike of a window is the strike of a row of the chosen
\* expiration and an element of strikes_analyzed, every window row's strike
\* is in strikes_analyzed too, and the scorer's index lookups raise nothing
C20_AtmStrikeInWindow ==
    (pc \in {"signal", "store", "raised"} /\ analysis_data # None) =>
        /\ \E i \in 1..Len(ExpiryRows(data)) :
               ExpiryRows(data)[i].strikePrice = analysis_data.atm_strike
        /\ \E p \in 1..Len(analysis_data.strikes_analyzed) :
               analysis_data.strikes_analyzed[p] = analysis_data.atm_strike
        /\ \A i \in 1..Len(analysis_data.data) :
               \E p \in 1..Len(analysis_data.strikes_analyzed) :
                   analysis_data.strikes_analyzed[p] = analysis_data.data[i].strikePrice
        /\ err # "ValueError"

\* C20 witness: a window cut out of a longer strike list, with the ATM strike
\* at its upper end, and candidates scored by their index in it
C20_Witness ==
    /\ Generated
    /\ Len(analysis_data.strikes_analyzed) < Len(analysis_data.all_data)
    /\ analysis_data.strikes_analyzed[Len(analysis_data.strikes_analyzed)]
           = analysis_data.atm_strike
    /\ strike_data # None
    /\ \E i \in 1..Len(candidate_strikes) : candidate_strikes[i].distance_from_atm = 5

\* The label and side when the bearish branches are tested before the bullish
\* ones
BearishFirst(bullish, bearish) ==
    IF bearish >= 3 THEN <<"STRONG BUY", "PE">>
    ELSE IF bearish >= 2 THEN <<"BUY", "PE">>
    ELSE IF bullish >= 3 THEN <<"STRONG BUY", "CE">>
    ELSE IF bullish >= 2 THEN <<"BUY", "CE">>
    ELSE <<"HOLD", "None">>

\* C21: for every pair (pcr_oi, oi_ratio) bullish <= 3, bearish <= 3, never
\* bullish >= 2 together with bearish >= 2, and the label and side are those
\* that testing the bearish branches first would give
C21_ScoresExclusive ==
    pc = "classified" =>
        /\ bullish_conditions \in 0..3
        /\ bearish_conditions \in 0..3
        /\ ~(bullish_conditions >= 2 /\ bearish_conditions >= 2)
        /\ <<signal_label, option_type>> = BearishFirst(bullish_conditions, bearish_conditions)

\* C21 witness: a bearish score of 3 with a bullish score of 0, classified PE
C21_Witness ==
    /\ pc = "classified"
    /\ bearish_conditions = 3
    /\ bullish_conditions = 0
    /\ option_type = "PE"

\* C22: the analysis, signals and timestamp of a response were stored by one
\* refresh cycle
C22_ResponseFromOneCycle ==
    (request.pc = "done" /\ request.response.status = 200) =>
        /\ request.response.signals.cycle = request.response.analysis.cycle
        /\ request.response.timestamp.cycle = request.response.analysis.cycle

====
